---- MODULE Spec2Model ----
(***************************************************************************)
(* A model of calculator.py: the fertility outcome projection              *)
(* (compute_results and the curve functions under it), the multi-round     *)
(* probability model (babies_cycles), the attrition-rate interpolation     *)
(* (get_attrition_rate), the visualisation smoothing                       *)
(* (get_attrition_points) and the request handler around them.             *)
(*                                                                         *)
(* Real numbers.  The program computes in IEEE binary64.  The model        *)
(* computes in decimal fixed point with six fractional digits: the real x  *)
(* is the integer x * SCALE, and every product and quotient is rounded to  *)
(* the nearest unit.  TLC's integers are 32 bits wide, so products and     *)
(* quotients are assembled from three-digit limbs.                         *)
(***************************************************************************)
EXTENDS Integers, Sequences, FiniteSets

----------------------------------------------------------------------------
(* Fixed-point arithmetic                                                  *)

SCALE == 1000 * 1000
LIMB == 10 * 10 * 10

\* Decimal literals: Units(n) is the integer n, Milli(n) is n / 1000 and
\* Micro(n) is n / 1000000, so 30.57 is Milli(30570) and 0.02205 is Micro(22050).
Units(n) == n * SCALE
Milli(n) == n * LIMB
Micro(n) == n

Min(a, b) == IF a <= b THEN a ELSE b
Max(a, b) == IF a >= b THEN a ELSE b

\* np.clip(x, lo, hi)
Clip(x, lo, hi) == Min(Max(x, lo), hi)

\* a * b on fixed-point values, rounded half up to the unit.
MulFix(a, b) ==
    LET ah == a \div LIMB
        al == a % LIMB
        bh == b \div LIMB
        bl == b % LIMB
        mid == ah * bl + al * bh
        mh == mid \div LIMB
        ml == mid % LIMB
    IN  ah * bh + mh + ((ml * LIMB + al * bl + (SCALE \div 2)) \div SCALE)

\* The six fractional decimal digits of r / b, for 0 <= r < b, and what is left.
RECURSIVE FracDigits(_, _, _, _)
FracDigits(r, b, k, acc) ==
    IF k = 0 THEN <<acc, r>>
    ELSE FracDigits((r * 10) % b, b, k - 1, acc * 10 + ((r * 10) \div b))

\* a / b for b > 0, rounded half up to the unit.  A divisor too wide for the
\* digit loop is first cut by three digits, and the quotient with it.
RECURSIVE DivFix(_, _)
DivFix(a, b) ==
    IF b < 0 THEN DivFix(-a, -b)
    ELSE IF b > 200 * SCALE
    THEN (DivFix(a, b \div LIMB) + (LIMB \div 2)) \div LIMB
    ELSE LET q == a \div b
             fd == FracDigits(a % b, b, 6, 0)
         IN  q * SCALE + fd[1] + (IF 2 * fd[2] >= b THEN 1 ELSE 0)

\* floor, ceil of a fixed-point value, as integers (np.floor, np.ceil + int()).
Floor(x) == x \div SCALE
Ceil(x) == -((-x) \div SCALE)

\* ln 2
LN2 == Micro(693147)

RECURSIVE Pow2(_)
Pow2(k) == IF k = 0 THEN 1 ELSE 2 * Pow2(k - 1)

\* e^r for 0 <= r < ln 2: the Taylor series to the term r^i / i!, Horner form.
RECURSIVE ExpSeries(_, _, _)
ExpSeries(r, i, acc) ==
    IF i = 0 THEN acc
    ELSE ExpSeries(r, i - 1, SCALE + (MulFix(r, acc) + (i \div 2)) \div i)

\* np.exp(x): x = k ln 2 + r, e^x = 2^k e^r.  Below e^-22 the result is 0 at
\* this precision.
Exp(x) ==
    LET k == x \div LN2
        e == ExpSeries(x - k * LN2, 12, SCALE)
    IN  IF k >= 0 THEN e * Pow2(k)
        ELSE IF k < -22 THEN 0
        ELSE (e + Pow2(-k - 1)) \div Pow2(-k)

\* 1/1 + u/3 + u^2/5 + ... to the term u^j / (2j+1), Horner form.
RECURSIVE AtanhSeries(_, _, _)
AtanhSeries(u, j, acc) ==
    IF j < 0 THEN acc
    ELSE AtanhSeries(u, j - 1, SCALE \div (2 * j + 1) + MulFix(u, acc))

\* ln x for x > 0: halve or double x into [1, 2), then
\* ln m = 2 atanh((m - 1) / (m + 1)).
RECURSIVE Ln(_)
Ln(x) ==
    IF x >= 2 * SCALE THEN Ln((x + 1) \div 2) + LN2
    ELSE IF x < SCALE THEN Ln(2 * x) - LN2
    ELSE LET t == DivFix(x - SCALE, x + SCALE)
         IN  2 * MulFix(t, AtanhSeries(MulFix(t, t), 7, 0))

\* x ** y for a real exponent y (C pow): 0 ** y = 0 for y > 0, x ** 0 = 1.
Pow(x, y) ==
    IF y = 0 THEN SCALE
    ELSE IF x = 0 THEN 0
    ELSE Exp(MulFix(y, Ln(x)))

\* x ** n for an int exponent n >= 0.
RECURSIVE PowInt(_, _)
PowInt(x, n) == IF n = 0 THEN SCALE ELSE MulFix(x, PowInt(x, n - 1))

\* round(x) of Python 3 for a fixed-point x: to the nearest integer, a tie to
\* the even one.
RoundHalfEven(x) ==
    LET f == Floor(x)
        r == x - Units(f)
    IN  IF 2 * r < SCALE THEN f
        ELSE IF 2 * r > SCALE THEN f + 1
        ELSE IF f % 2 = 0 THEN f ELSE f + 1

----------------------------------------------------------------------------
(* Constants and tables                                                    *)

AGE_EXTRA == <<0, 1, 3, 5, 7>>
AGE_MAX == Units(45)
AGE_MIN == Units(20)
BMI_MAX == Units(45)
BMI_MIN == Units(15)
ROUNDS_MAX == 3

\* NG_ML_2_PM_L = 7.18
NG_ML_2_PM_L == Milli(7180)

\* The absent value of an optional argument (Python's None): no number an
\* argument takes.
None == 0 - Units(2000)

\* The tags of the two enumerations.  UNLISTED stands for a member of the
\* enumeration that has no entry in a factor table.
ConditionTags == {"ENDOMETRIOSIS", "PCOS", "UNLISTED"}
EthnicityTags == {"ASIAN", "BLACK", "OTHER", "UNLISTED"}

\* dict.get(p, 1.0) on the three factor tables.
CONDITION_FACTORS_BIRTH(p) ==
    IF p = "ENDOMETRIOSIS" THEN Milli(800) ELSE SCALE

CONDITION_FACTORS_EGGS(p) ==
    IF p = "ENDOMETRIOSIS" THEN Milli(900)
    ELSE IF p = "PCOS" THEN Milli(1200)
    ELSE SCALE

ETHNICITY_FACTORS(p) ==
    IF p = "ASIAN" THEN Milli(820)
    ELSE IF p = "BLACK" THEN Milli(800)
    ELSE IF p = "OTHER" THEN Milli(850)
    ELSE SCALE

\* The stages in the order of the ATTRITION OrderedDict.
Stages ==
    <<"retrieved", "frozen", "thawed", "fertilized", "good_embryos",
      "implanted", "livebirth">>

\* The stages that compute_results takes a rate of.
RatedStages == {"thawed", "fertilized", "good_embryos", "implanted"}

\* ATTRITION[stage]: the age milestones, sorted, each with its (low, high).
ATTRITION(stage) ==
    CASE stage = "frozen" ->
           << <<30, Milli(750), Milli(800)>>, <<35, Milli(650), Milli(700)>>,
              <<40, Milli(450), Milli(500)>>, <<45, Milli(200), Milli(250)>> >>
      [] stage = "thawed" ->
           << <<30, Milli(850), Milli(900)>>, <<35, Milli(800), Milli(850)>>,
              <<40, Milli(700), Milli(750)>>, <<45, Milli(550), Milli(600)>> >>
      [] stage = "fertilized" ->
           << <<30, Milli(750), Milli(800)>>, <<35, Milli(650), Milli(700)>>,
              <<40, Milli(550), Milli(600)>>, <<45, Milli(450), Milli(500)>> >>
      [] stage = "good_embryos" ->
           << <<30, Milli(450), Milli(500)>>, <<35, Milli(350), Milli(400)>>,
              <<40, Milli(200), Milli(250)>>, <<45, Milli(100), Milli(125)>> >>
      [] stage = "implanted" ->
           << <<30, Milli(550), Milli(600)>>, <<35, Milli(450), Milli(500)>>,
              <<40, Milli(350), Milli(400)>>, <<45, Milli(250), Milli(275)>> >>
      [] OTHER -> << >>

----------------------------------------------------------------------------
(* Curve library                                                           *)

\* sigmoid(x, a, b, c, d) = a + (b - a) / (1 + exp(-(x - c) * d))
sigmoid(x, a, b, c, d) ==
    a + DivFix(b - a, SCALE + Exp(MulFix(-(x - c), d)))

\* amh_decline(age) = -0.02205 * exp(-((age - 30.57) / 12.36) ** 2)
amh_decline(age) ==
    LET z == DivFix(age - Milli(30570), Milli(12360))
    IN  MulFix(-Micro(22050), Exp(-MulFix(z, z)))

\* gompertz(x) = A * exp(-exp(-K * (x - T))) + S
gompertz(x) ==
    LET A == Milli(900)
        K == Milli(4520)
        T == Milli(800)
        S == Milli(400)
    IN  MulFix(A, Exp(-Exp(MulFix(-K, x - T)))) + S

lbr_by_age(age) ==
    sigmoid(age, Units(13), Milli(1500), Units(33), Milli(500)) \div 100

normal_amh(age) ==
    sigmoid(age, Milli(4600), -Milli(120), Milli(30500), Milli(170))

oocytes_by_age_new(age) ==
    sigmoid(age, -Milli(1400), Units(22), Units(37), -Milli(130))

oocytes_by_age_old(age) ==
    sigmoid(age, Units(22), Units(2), Units(38), Milli(410))

\* bmi_factor(bmi) = np.polyval(PARAMS_BMI, bmi), Horner's rule.  To keep six
\* significant digits of the leading coefficient -4.439e-06 the polynomial is
\* evaluated in y = bmi / 100, its coefficient of bmi^k multiplied by 100^k:
\* -443.9 y^4 + 593.8 y^3 - 293.2 y^2 + 62.03 y - 3.744.
bmi_factor(bmi) ==
    LET y == (bmi + 50) \div 100
        h4 == -Milli(443900)
        h3 == MulFix(h4, y) + Milli(593800)
        h2 == MulFix(h3, y) - Milli(293200)
        h1 == MulFix(h2, y) + Milli(62030)
    IN  MulFix(h1, y) - Milli(3744)

\* clbr_by_age(age) = 1 - (1 - lbr_by_age(age)) ** oocytes_by_age_old(age)
clbr_by_age(age) ==
    SCALE - Pow(SCALE - lbr_by_age(age), oocytes_by_age_old(age))

\* fix_amh_diff(old_amh, old_age, new_age)
fix_amh_diff(old_amh, old_age, new_age) ==
    old_amh + MulFix(amh_decline((new_age + old_age) \div 2), new_age - old_age)

\* prettify(prob) = round(prob * 100)
prettify(prob) == RoundHalfEven(prob * 100)

----------------------------------------------------------------------------
(* factorize, babies_cycles, get_attrition_rate, get_attrition_points       *)

\* factors.get(p, 1.0) for the table named `table`.
FactorOf(table, p) ==
    CASE table = "CONDITION_FACTORS_BIRTH" -> CONDITION_FACTORS_BIRTH(p)
      [] table = "CONDITION_FACTORS_EGGS" -> CONDITION_FACTORS_EGGS(p)
      [] table = "ETHNICITY_FACTORS" -> ETHNICITY_FACTORS(p)

\* factorize(props, factors): props is any iterable with a length, here a
\* sequence of tags; an empty one gives [1.0].
factorize(props, table) ==
    IF Len(props) = 0 THEN <<SCALE>>
    ELSE [i \in 1..Len(props) |-> FactorOf(table, props[i])]

\* np.prod(xs)
RECURSIVE Prod(_)
Prod(xs) == IF Len(xs) = 0 THEN SCALE ELSE MulFix(Prod(Tail(xs)), Head(xs))

RECURSIVE Sum(_)
Sum(xs) == IF Len(xs) = 0 THEN 0 ELSE Head(xs) + Sum(Tail(xs))

\* np.mean(xs) of a non-empty xs
Mean(xs) == DivFix(Sum(xs), Units(Len(xs)))

\* babies_cycles with the correction added instead of subtracted.
babies_cycles_added(p1, eggs) ==
    LET q == SCALE - p1
        a == Pow(q, DivFix(SCALE, Units(eggs)))
        p2 == IF eggs = 0 THEN 0
              ELSE SCALE - MulFix(q, SCALE + DivFix(eggs * (SCALE - a), a))
        p_n_1(n) == SCALE - PowInt(q, n)
        p_n_2(n) == SCALE - PowInt(q, n)
                      + MulFix(n * PowInt(q, n - 1), p1 - p2)
    IN  IF eggs # 0 /\ a = 0
        THEN [raised |-> "ZeroDivisionError", probs |-> << >>]
        ELSE [raised |-> "",
              probs |-> [n \in 1..ROUNDS_MAX |->
                            <<prettify(p_n_1(n)), prettify(p_n_2(n))>>]]

\* babies_cycles(p1, eggs).  The result is [raised, probs]: raised names the
\* exception that ends the call ("" when it returns), probs is the list
\* returned.  a = 0 makes eggs * (1 - a) / a a float division by zero.
babies_cycles(p1, eggs) ==
    LET q == SCALE - p1
        a == Pow(q, DivFix(SCALE, Units(eggs)))
        p2 == IF eggs = 0 THEN 0
              ELSE SCALE - MulFix(q, SCALE + DivFix(eggs * (SCALE - a), a))
        p_n_1(n) == SCALE - PowInt(q, n)
        p_n_2(n) == SCALE - PowInt(q, n)
                      - MulFix(n * PowInt(q, n - 1), p1 - p2)
    IN  IF eggs # 0 /\ a = 0
        THEN [raised |-> "ZeroDivisionError", probs |-> << >>]
        ELSE [raised |-> "",
              probs |-> [n \in 1..ROUNDS_MAX |->
                            <<prettify(p_n_1(n)), prettify(p_n_2(n))>>]]

\* The loop without its break: it always ends on the last pair.
BracketIndexNoBreak(rates, age, i) == Len(rates) - 1

\* The loop of get_attrition_rate over zip(ages[:-1], ages[1:]): the index of
\* the first pair (ages[i], ages[i+1]) with age < ages[i+1], the last pair
\* when the loop runs out.
RECURSIVE BracketIndex(_, _, _)
BracketIndex(rates, age, i) ==
    IF i >= Len(rates) - 1 \/ age < Units(rates[i + 1][1]) THEN i
    ELSE BracketIndex(rates, age, i + 1)

\* np.mean(rates[age]) of one milestone <<age, low, high>>
RateMean(m) == (m[2] + m[3]) \div 2

\* get_attrition_rate(age, stage), for a stage that has a rate table.
get_attrition_rate(age, stage) ==
    LET rates == ATTRITION(stage)
        last == Len(rates)
    IN  IF age <= Units(rates[1][1]) THEN RateMean(rates[1])
        ELSE IF age >= Units(rates[last][1]) THEN RateMean(rates[last])
        ELSE LET i == BracketIndex(rates, age, 1)
                 age_lo == Units(rates[i][1])
                 age_hi == Units(rates[i + 1][1])
                 rate_lo == RateMean(rates[i])
                 rate_hi == RateMean(rates[i + 1])
                 age_ratio == DivFix(age - age_lo, age_hi - age_lo)
             IN  rate_lo + MulFix(age_ratio, rate_hi - rate_lo)

\* round(x, 1): the set of values Python can return.  The float that stands
\* for a decimal tie (x.x5) is the tie itself only when it is a multiple of
\* 0.25 (x.25, x.75), and then the even tenth is taken; any other tie is a
\* float just below or just above it, and which one depends on the float's
\* bits, which this arithmetic does not hold: both tenths are possible.
RoundTenth(x) ==
    LET tenth == Milli(100)
        f == x \div tenth
        r == x % tenth
    IN  IF 2 * r < tenth THEN {f * tenth}
        ELSE IF 2 * r > tenth THEN {(f + 1) * tenth}
        ELSE IF x % Milli(250) = 0
        THEN {(IF f % 2 = 0 THEN f ELSE f + 1) * tenth}
        ELSE {f * tenth, (f + 1) * tenth}

\* The point with the bump's factor 0.075 mistyped as 0.75.
PointTypo(l, r) ==
    [left |-> RoundTenth(l),
     middle |-> RoundTenth((l + r) \div 2
                             + Min(MulFix(Micro(750000), l - r), Milli(250))),
     right |-> RoundTenth(r)]

\* The point of one stage, from its l and r.  Each field is the set of values
\* the rounding can give it: one value, or two at an inexact tie.
Point(l, r) ==
    [left |-> RoundTenth(l),
     middle |-> RoundTenth((l + r) \div 2
                             + Min(MulFix(Micro(75000), l - r), Milli(250))),
     right |-> RoundTenth(r)]

StageIndex(stage) == CHOOSE i \in 1..Len(Stages) : Stages[i] = stage

\* get_attrition_points(attrition_dict): a function from the stage to its
\* point.
get_attrition_points(attrition_dict) ==
    LET left == [i \in 1..Len(Stages) |-> Units(attrition_dict[Stages[i]])]
        right == [i \in 1..Len(Stages) |->
                    IF i < Len(Stages) THEN left[i + 1]
                    ELSE MulFix(left[i], Milli(900))]
    IN  [stage \in DOMAIN attrition_dict |->
            Point(left[StageIndex(stage)], right[StageIndex(stage)])]

----------------------------------------------------------------------------
(* compute_results                                                         *)

\* What a call that raises leaves: the exception's name and no record.
Raised(name) ==
    [raised |-> name, age |-> 0, births |-> << >>, eggs |-> << >>,
     attrition |-> << >>, attrition_graph |-> << >>]

\* The eggs loop without the running total: each round's own count.
RECURSIVE EggsPerRound(_, _, _, _, _)
EggsPerRound(i, eggs_tot, age, amh, health_factor_eggs) ==
    IF i >= ROUNDS_MAX THEN << >>
    ELSE LET age_i == Clip(age + Units(i), AGE_MIN, AGE_MAX)
             base == MulFix(oocytes_by_age_new(age_i), health_factor_eggs)
             norm_amh == normal_amh(age_i)
             fixed_amh == fix_amh_diff(amh, age, age_i)
             eggs_i == Floor(MulFix(base, gompertz(DivFix(fixed_amh, norm_amh))))
         IN  <<eggs_i>>
               \o EggsPerRound(i + 1, eggs_tot, age, amh, health_factor_eggs)

\* The eggs loop: the cumulative counts of rounds i .. ROUNDS_MAX - 1, after
\* eggs_tot eggs in the rounds before.
RECURSIVE EggsFrom(_, _, _, _, _)
EggsFrom(i, eggs_tot, age, amh, health_factor_eggs) ==
    IF i >= ROUNDS_MAX THEN << >>
    ELSE LET age_i == Clip(age + Units(i), AGE_MIN, AGE_MAX)
             base == MulFix(oocytes_by_age_new(age_i), health_factor_eggs)
             norm_amh == normal_amh(age_i)
             fixed_amh == fix_amh_diff(amh, age, age_i)
             eggs_i == Floor(MulFix(base, gompertz(DivFix(fixed_amh, norm_amh))))
         IN  <<eggs_tot + eggs_i>>
               \o EggsFrom(i + 1, eggs_tot + eggs_i, age, amh, health_factor_eggs)

\* eggs_normal = int(np.floor(oocytes_by_age_old(age) * health_factor_eggs)),
\* for the clipped age and the conditions.
eggs_normal_of(age, conditions) ==
    Floor(MulFix(oocytes_by_age_old(age),
                 Prod(factorize(conditions, "CONDITION_FACTORS_EGGS"))))

\* The age reported after the clamp: round(age) for round(age0).
NominalAgeClamped(age0) == RoundHalfEven(Min(Max(age0, AGE_MIN), AGE_MAX))

\* 'age': round(age0)
NominalAge(age0) == RoundHalfEven(age0)

\* compute_results(age, amh, bmi, ethnicity, conditions, l_afc, r_afc): the
\* record it returns, or the exception it raises.  ethnicity and
\* conditions are sequences of tags (any iterable with a length), amh, l_afc
\* and r_afc may be None.  A None amh reaches fix_amh_diff in the first round
\* (None + float: TypeError); eggs_normal = 0 makes 1 / eggs_normal a division
\* by zero.
compute_results(age0, amh, bmi0, ethnicity, conditions, l_afc, r_afc) ==
    LET age == Clip(age0, AGE_MIN, AGE_MAX)
        bmi == Clip(bmi0, BMI_MIN, BMI_MAX)
        health_factor_eggs == Prod(factorize(conditions, "CONDITION_FACTORS_EGGS"))
        eggs_normal == eggs_normal_of(age, conditions)
        eggs == EggsFrom(0, 0, age, amh, health_factor_eggs)
        clbr0 == MulFix(MulFix(MulFix(clbr_by_age(age), bmi_factor(bmi)),
                               Mean(factorize(ethnicity, "ETHNICITY_FACTORS"))),
                        Prod(factorize(conditions, "CONDITION_FACTORS_BIRTH")))
        lbr == SCALE - Pow(SCALE - clbr0, DivFix(SCALE, Units(eggs_normal)))
        clbr == SCALE - PowInt(SCALE - lbr, eggs[1])
        births == babies_cycles(clbr, eggs[1])
        retrieved == eggs[1]
        afc == l_afc + r_afc
        orpi == DivFix(amh * afc, age)
        isPcos == \E i \in 1..Len(conditions) : conditions[i] = "PCOS"
        frozen ==
            IF l_afc = None \/ r_afc = None THEN Units(retrieved)
            ELSE IF amh = None
            THEN MulFix(Milli(800), Units(retrieved) + Milli(200) * afc)
            ELSE IF isPcos
            THEN Milli(650) * retrieved
                   + MulFix(MulFix(Milli(350), orpi), Milli(900))
            ELSE Milli(650) * retrieved + MulFix(Milli(350), orpi)
        thawed == MulFix(frozen, get_attrition_rate(age, "thawed"))
        fertilized == MulFix(thawed, get_attrition_rate(age, "fertilized"))
        good_embryos == MulFix(fertilized, get_attrition_rate(age, "good_embryos"))
        implanted0 == MulFix(good_embryos, get_attrition_rate(age, "implanted"))
        implanted ==
            MulFix(MulFix(MulFix(implanted0, bmi_factor(bmi)),
                          Mean(factorize(ethnicity, "ETHNICITY_FACTORS"))),
                   Prod(factorize(conditions, "CONDITION_FACTORS_BIRTH")))
        livebirth == MulFix(implanted, Milli(800))
        attrition ==
            [retrieved |-> retrieved,
             frozen |-> Ceil(frozen),
             thawed |-> Ceil(thawed),
             fertilized |-> Ceil(fertilized),
             good_embryos |-> Ceil(good_embryos),
             implanted |-> Ceil(implanted),
             livebirth |-> Ceil(livebirth)]
    IN  IF amh = None THEN Raised("TypeError")
        ELSE IF eggs_normal = 0 THEN Raised("ZeroDivisionError")
        ELSE IF births.raised # "" THEN Raised(births.raised)
        ELSE [raised |-> "",
              age |-> NominalAge(age0),
              births |-> births.probs,
              eggs |-> eggs,
              attrition |-> attrition,
              attrition_graph |-> get_attrition_points(attrition)]

----------------------------------------------------------------------------
(* The program's state                                                     *)

VARIABLES
    pc,         \* where the handler is: idle, persist, normalize, compute,
                \* done, raised
    req,        \* the validated request, as received
    loc,        \* the handler's local variables bmi, amh_value, conditions,
                \* ethnicity
    db,         \* the rows pg.exec_fetch_one('fertility/cycle_create') wrote
    results,    \* the list the comprehension of line 324 has built so far
    trace,      \* the calls made so far, in order: a persistence call, or a
                \* compute_results call with its arguments
    call        \* a direct call of one core function: its name, its
                \* arguments and what it returned

vars == <<pc, req, loc, db, results, trace, call>>

handlerVars == <<pc, req, loc, db, results, trace>>

NoRequest ==
    [clinic |-> "", patient |-> "", age |-> 0, height |-> 0, weight |-> 0,
     amh_value |-> None, amh_units |-> 0, bmi |-> None,
     condition |-> << >>, ethnicity |-> << >>]

NoLocals ==
    [bmi |-> None, amh_value |-> None, conditions |-> {}, ethnicity |-> {}]

NoCall == [fn |-> "", args |-> << >>, ret |-> << >>]

Init ==
    /\ pc = "idle"
    /\ req = NoRequest
    /\ loc = NoLocals
    /\ db = << >>
    /\ results = << >>
    /\ trace = << >>
    /\ call = NoCall

----------------------------------------------------------------------------
(* handler                                                                 *)

\* The bounds the decorators put on a request (lines 288-290).
HANDLER_AGE_LO == 15
HANDLER_AGE_HI == 50
HEIGHT_LO == 120
HEIGHT_HI == 200
WEIGHT_LO == 40
WEIGHT_HI == 160

\* AmhUnit
NanoGramsPerMilliLitre == 0
PicoMolesPerLitre == 1

\* The requests explored: the ends and the middle of each validated range,
\* AMH absent and in either unit, BMI absent and supplied, tag lists empty,
\* plain and with a repeated tag.
RequestAges == {HANDLER_AGE_LO, 30, 44, HANDLER_AGE_HI}
RequestHeights == {HEIGHT_LO, HEIGHT_HI}
RequestWeights == {WEIGHT_LO, WEIGHT_HI}
RequestAmh == {None, Milli(2500)}
RequestBmi == {None, Units(22)}
RequestConditions == {<< >>, <<"PCOS", "ENDOMETRIOSIS", "PCOS">>}
RequestEthnicity == {<< >>, <<"ASIAN", "BLACK">>}

Requests ==
    [clinic : {"clinic"}, patient : {"patient"},
     age : RequestAges, height : RequestHeights, weight : RequestWeights,
     amh_value : RequestAmh,
     amh_units : {NanoGramsPerMilliLitre, PicoMolesPerLitre},
     bmi : RequestBmi,
     condition : RequestConditions, ethnicity : RequestEthnicity]

\* set(xs) of a list
SetOf(xs) == {xs[i] : i \in 1..Len(xs)}

\* The members of a set in the order an iteration meets them.
RECURSIVE SeqOf(_)
SeqOf(S) ==
    IF S = {} THEN << >>
    ELSE LET x == CHOOSE x \in S : TRUE IN <<x>> \o SeqOf(S \ {x})

\* a / b for two ints (Python's true division), rounded half up to the unit.
IntDiv(a, b) == (a * SCALE + b \div 2) \div b

\* qvars (lines 303-314), from the parameters as they stand when it is built.
\* json.dumps of a tag list is kept as the list.
qvars(r, l) ==
    [clinic |-> r.clinic, patient |-> r.patient, age |-> r.age,
     height |-> r.height, weight |-> r.weight,
     amh_value |-> l.amh_value, amh_units |-> r.amh_units, bmi |-> l.bmi,
     condition |-> r.condition, ethnicity |-> r.ethnicity]

\* Lines 317-323: the BMI when none was given, the AMH in ng/mL, the tag sets.
Normalized(r, l) ==
    [bmi |-> IF l.bmi = None THEN IntDiv(r.weight, r.height * r.height)
             ELSE l.bmi,
     amh_value |-> IF l.amh_value # None /\ r.amh_units = PicoMolesPerLitre
                   THEN DivFix(l.amh_value, NG_ML_2_PM_L)
                   ELSE l.amh_value,
     conditions |-> SetOf(r.condition),
     ethnicity |-> SetOf(r.ethnicity)]

\* famh (line 321) at the age ay
famh(r, l, ay) ==
    IF l.amh_value = None THEN normal_amh(Units(ay))
    ELSE fix_amh_diff(l.amh_value, Units(r.age), Units(ay))

\* The arguments of the k-th compute_results call of line 324.
ComputeArgs(r, l, k) ==
    LET ay == r.age + AGE_EXTRA[k]
    IN  [age |-> Units(ay), amh |-> famh(r, l, ay), bmi |-> l.bmi,
         ethnicity |-> SeqOf(l.ethnicity), conditions |-> SeqOf(l.conditions),
         l_afc |-> None, r_afc |-> None]

ComputeResults(a) ==
    compute_results(a.age, a.amh, a.bmi, a.ethnicity, a.conditions,
                    a.l_afc, a.r_afc)

\* The gateway hands the handler a validated request.
Invoke ==
    /\ pc = "idle"
    /\ call = NoCall
    /\ \E r \in Requests :
          /\ req' = r
          /\ loc' = [NoLocals EXCEPT !.bmi = r.bmi, !.amh_value = r.amh_value]
    /\ pc' = "persist"
    /\ UNCHANGED <<db, results, trace, call>>

\* The row built and written after lines 317-320 have changed bmi and
\* amh_value.
PersistNormalized ==
    /\ pc = "persist"
    /\ db' = Append(db, qvars(req, Normalized(req, loc)))
    /\ trace' = Append(trace, [op |-> "cycle_create"])
    /\ pc' = "normalize"
    /\ UNCHANGED <<req, loc, results, call>>

\* Lines 303-316: the cycle row is built and written.
Persist ==
    /\ pc = "persist"
    /\ db' = Append(db, qvars(req, loc))
    /\ trace' = Append(trace, [op |-> "cycle_create"])
    /\ pc' = "normalize"
    /\ UNCHANGED <<req, loc, results, call>>

\* Lines 317-323.
Normalize ==
    /\ pc = "normalize"
    /\ loc' = Normalized(req, loc)
    /\ pc' = "compute"
    /\ UNCHANGED <<req, db, results, trace, call>>

\* Line 324: one element of the comprehension, with the arguments a and the
\* outcome rec of its compute_results call.  An exception ends the handler.
ComputeStep(a, rec) ==
    /\ trace' = Append(trace, [op |-> "compute_results", args |-> a])
    /\ IF rec.raised # ""
       THEN pc' = "raised" /\ results' = results
       ELSE pc' = pc /\ results' = Append(results, rec)

Compute ==
    /\ pc = "compute"
    /\ Len(results) < Len(AGE_EXTRA)
    /\ \E a \in {ComputeArgs(req, loc, Len(results) + 1)} :
          ComputeStep(a, ComputeResults(a))
    /\ UNCHANGED <<req, loc, db, call>>

\* Line 326.
Return ==
    /\ pc = "compute"
    /\ Len(results) = Len(AGE_EXTRA)
    /\ pc' = "done"
    /\ UNCHANGED <<req, loc, db, results, trace, call>>

Next == Invoke \/ Persist \/ Normalize \/ Compute \/ Return

Spec == Init /\ [][Next]_vars

----------------------------------------------------------------------------
(* Direct calls of the core functions                                      *)

\* The bounds of the arguments explored.
MaxEggs == 30
MaxQty == 12
MaxRepeat == 11
MaxAfc == 15

\* p1: every whole percent from 0 to 1.
CallP1 == {Milli(10) * k : k \in 0..100}

\* Ages from 15 to 57 (the handler's 50 and its largest look-ahead), by the
\* quarter year.
CallRateAges == {Milli(250) * k : k \in (4 * HANDLER_AGE_LO)..(4 * 57)}

\* The stages that have a rate table.
TabledStages == RatedStages \cup {"frozen"}

\* Attrition records: the seven quantities take three values x, y, z so that
\* every ordered pair of values stands at two adjacent stages.
CallAttrition ==
    {[retrieved |-> x, frozen |-> y, thawed |-> z, fertilized |-> x,
      good_embryos |-> z, implanted |-> y, livebirth |-> x] :
        x \in 0..MaxQty, y \in 0..MaxQty, z \in 0..MaxQty}

\* xs repeated k times
RECURSIVE Repeat(_, _)
Repeat(xs, k) == IF k = 0 THEN << >> ELSE xs \o Repeat(xs, k - 1)

\* Arguments of compute_results: ages below, inside and above [20, 45], AMH
\* absent, low, typical and high, BMI typical and above the clamp, tag lists
\* empty and not, a condition list with no, one and MaxRepeat entries of one
\* tag, antral-follicle counts absent and supplied.
CallComputeArgs ==
    [age : {Units(15), Units(30), Milli(32500), Units(45), Units(57)},
     amh : {None, Milli(100), Milli(2500), Units(10)},
     bmi : {Units(22), Units(50)},
     ethnicity : {<< >>, <<"ASIAN", "BLACK">>},
     conditions : {Repeat(<<"ENDOMETRIOSIS">>, k) \o p :
                      k \in {0, 1, MaxRepeat}, p \in {<< >>, <<"PCOS">>}},
     l_afc : {None, 0, MaxAfc},
     r_afc : {None, 0, MaxAfc}]

CallBabiesCycles ==
    /\ pc = "idle"
    /\ call = NoCall
    /\ \E p1 \in CallP1, eggs \in 0..MaxEggs :
          call' = [fn |-> "babies_cycles",
                   args |-> [p1 |-> p1, eggs |-> eggs],
                   ret |-> babies_cycles(p1, eggs)]
    /\ UNCHANGED handlerVars

CallGetAttritionRate ==
    /\ pc = "idle"
    /\ call = NoCall
    /\ \E age \in CallRateAges, stage \in TabledStages :
          call' = [fn |-> "get_attrition_rate",
                   args |-> [age |-> age, stage |-> stage],
                   ret |-> get_attrition_rate(age, stage)]
    /\ UNCHANGED handlerVars

CallGetAttritionPoints ==
    /\ pc = "idle"
    /\ call = NoCall
    /\ \E attrition \in CallAttrition :
          call' = [fn |-> "get_attrition_points",
                   args |-> attrition,
                   ret |-> get_attrition_points(attrition)]
    /\ UNCHANGED handlerVars

CallComputeResults ==
    /\ pc = "idle"
    /\ call = NoCall
    /\ \E a \in CallComputeArgs :
          call' = [fn |-> "compute_results", args |-> a,
                   ret |-> ComputeResults(a)]
    /\ UNCHANGED handlerVars

NextCore ==
    \/ CallBabiesCycles
    \/ CallGetAttritionRate
    \/ CallGetAttritionPoints
    \/ CallComputeResults

SpecCore == Init /\ [][NextCore]_vars

----------------------------------------------------------------------------
(* Properties                                                              *)

IsCall(fn) == call.fn = fn

\* A record compute_results returned: from a direct call, or in the handler's
\* results.
Returned ==
    (IF IsCall("compute_results") /\ call.ret.raised = "" THEN {call.ret}
     ELSE {})
      \cup {results[k] : k \in 1..Len(results)}

\* The births lists returned: by a direct babies_cycles call with p1 < 1, or
\* inside a compute_results record.
BirthsReturned ==
    (IF IsCall("babies_cycles") /\ call.args.p1 < SCALE
          /\ call.ret.raised = ""
     THEN {call.ret.probs} ELSE {})
      \cup {r.births : r \in Returned}

\* The scenario of the specification: age 30, AMH 2.5 ng/mL, BMI 22, no
\* conditions, no ethnicity tags, no AFC.
Scenario ==
    [age |-> Units(30), amh |-> Milli(2500), bmi |-> Units(22),
     ethnicity |-> << >>, conditions |-> << >>,
     l_afc |-> None, r_afc |-> None]

\* C1 as stated: in every round the first entry of the pair (the claim's
\* lower) is at most the second (its upper).
C1_LowerLeUpper ==
    \A b \in BirthsReturned :
        \A n \in 1..3 : b[n][1] <= b[n][2]

\* C1, amended: babies_cycles returns three pairs, one per round, and in every
\* round the first entry, round(100 (1 - (1 - p1)^n)), is at least the second,
\* which subtracts a correction that is never negative; for p1 in [0, 1) and
\* eggs >= 0, and for the births of compute_results.
C1_FirstGeSecond ==
    \A b \in BirthsReturned :
        /\ Len(b) = 3
        /\ \A n \in 1..3 : Len(b[n]) = 2 /\ b[n][1] >= b[n][2]

\* C1's witness: the scenario's births, every round's first entry strictly
\* the larger.
C1_Witness ==
    /\ IsCall("compute_results")
    /\ call.args = Scenario
    /\ call.ret.births = << <<84, 53>>, <<97, 87>>, <<100, 97>> >>

\* A direct compute_results call whose conditions are a set: no tag twice.
IsSetCall ==
    /\ IsCall("compute_results")
    /\ Cardinality(SetOf(call.args.conditions)) = Len(call.args.conditions)

\* C2: for an age, an AMH, a BMI, an ethnicity set and a condition set, with
\* antral-follicle counts absent or supplied, the attrition quantities that
\* compute_results returns do not increase along retrieved, frozen, thawed,
\* fertilized, good_embryos, implanted, livebirth.
C2_AttritionNonIncreasing ==
    \A r \in (IF IsCall("compute_results") /\ ~IsSetCall THEN {}
              ELSE Returned) :
        LET t == r.attrition
        IN  /\ t.retrieved >= t.frozen
            /\ t.frozen >= t.thawed
            /\ t.thawed >= t.fertilized
            /\ t.fertilized >= t.good_embryos
            /\ t.good_embryos >= t.implanted
            /\ t.implanted >= t.livebirth

\* C3: the eggs list of compute_results has ROUNDS_MAX = 3 entries, starts at
\* a count that is not negative and never decreases: no round's increment is
\* negative.
C3_EggsNonDecreasing ==
    \A r \in Returned :
        /\ Len(r.eggs) = 3
        /\ 0 <= r.eggs[1]
        /\ r.eggs[1] <= r.eggs[2]
        /\ r.eggs[2] <= r.eggs[3]

\* C3's witness: a call above the age clamp whose eggs still grow.
C3_Witness ==
    /\ IsCall("compute_results")
    /\ call.args.age = Units(57)
    /\ call.ret.raised = ""
    /\ call.ret.eggs[1] > 0
    /\ call.ret.eggs[3] > call.ret.eggs[1]

\* C4: the handler never ends in an exception, and what it returns is five
\* records, the k-th with 'age' = the patient's age plus the k-th of 0, 1, 3,
\* 5, 7: the nominal age, not the clamped one.
C4_FiveRecordsNominalAge ==
    /\ pc # "raised"
    /\ \A k \in 1..Len(results) :
          results[k].age = req.age + <<0, 1, 3, 5, 7>>[k]
    /\ pc = "done" => Len(results) = 5

\* C4's witness: a returned response for a patient of 50, the last record's
\* age 57.
C4_Witness ==
    /\ pc = "done"
    /\ req.age = 50
    /\ results[5].age = 57

\* weight_kg / (height_cm / 100)^2
BmiInMetres(weight, height) ==
    DivFix(Units(weight), MulFix(Milli(10) * height, Milli(10) * height))

\* C5: with no BMI in the request, the BMI of every compute_results call is
\* weight / (height / 100)^2.
C5_BmiInMetres ==
    \A i \in 1..Len(trace) :
        (trace[i].op = "compute_results" /\ req.bmi = None)
            => trace[i].args.bmi = BmiInMetres(req.weight, req.height)

\* C6: babies_cycles(1, eggs) with eggs > 0, where a = 0, does not raise: it
\* returns three pairs, the second entry computed with p2 = p1 = 1 and so
\* equal to the first.
C6_NoDivisionByZero ==
    (IsCall("babies_cycles") /\ call.args.eggs > 0 /\ call.args.p1 = SCALE)
        => /\ call.ret.raised = ""
           /\ Len(call.ret.probs) = 3
           /\ \A n \in 1..Len(call.ret.probs) :
                 call.ret.probs[n][2] = call.ret.probs[n][1]

\* C7: compute_results with eggs_normal = 0 does not raise, and returns 0 for
\* both probabilities of round 1.
C7_ZeroEggsNormal ==
    (/\ IsCall("compute_results")
     /\ call.args.amh # None
     /\ eggs_normal_of(Min(Max(call.args.age, AGE_MIN), AGE_MAX),
                       call.args.conditions) = 0)
        => /\ call.ret.raised = ""
           /\ call.ret.births[1] = <<0, 0>>

\* The midpoint of a stage's range at a milestone, read from the table.
Midpoint(stage, milestone) ==
    LET m == CHOOSE m \in SetOf(ATTRITION(stage)) : m[1] = milestone
    IN  (m[2] + m[3]) \div 2

\* What C8 says get_attrition_rate is.
InterpolatedMidpoint(age, stage) ==
    IF age <= Units(30) THEN Midpoint(stage, 30)
    ELSE IF age >= Units(45) THEN Midpoint(stage, 45)
    ELSE LET lo == 5 * (Floor(age) \div 5)
             t == DivFix(age - Units(lo), Units(5))
         IN  Midpoint(stage, lo)
               + MulFix(t, Midpoint(stage, lo + 5) - Midpoint(stage, lo))

\* C8: for thawed, fertilized, good_embryos and implanted, and every age,
\* get_attrition_rate is the midpoint at 30 up to 30, the midpoint at 45 from
\* 45 on, and between them the linear interpolation of the midpoints of the
\* two milestones around the age; 0.875 for thawed at 30, 0.575 for thawed at
\* 50, the milestone's own midpoint at 35 and 40.
C8_RateIsInterpolatedMidpoint ==
    (IsCall("get_attrition_rate") /\ call.args.stage \in RatedStages)
        => LET age == call.args.age
               stage == call.args.stage
           IN  /\ call.ret = InterpolatedMidpoint(age, stage)
               /\ (stage = "thawed" /\ age = Units(30))
                     => call.ret = Milli(875)
               /\ (stage = "thawed" /\ age = Units(50))
                     => call.ret = Milli(575)
               /\ age \in {Units(35), Units(40)}
                     => call.ret = Midpoint(stage, Floor(age))

\* C8's witness: thawed at 32.5, halfway between 0.875 and 0.825.
C8_Witness ==
    /\ IsCall("get_attrition_rate")
    /\ call.args = [age |-> Milli(32500), stage |-> "thawed"]
    /\ call.ret = Milli(850)

\* The attrition records get_attrition_points was given, each with the graph
\* it returned.
Graphs ==
    (IF IsCall("get_attrition_points")
     THEN {<<call.args, call.ret>>} ELSE {})
      \cup {<<r.attrition, r.attrition_graph>> : r \in Returned}

\* C9: every stage's point has left = the stage's quantity, right = the next
\* stage's quantity (0.9 * left for livebirth), and a middle between
\* min(left, right) and max(left, right) + 0.25.
C9_PointsWithinBounds ==
    \A g \in Graphs :
        \A i \in 1..7 :
            LET point == g[2][Stages[i]]
                l == Units(g[1][Stages[i]])
                r == IF i < 7 THEN Units(g[1][Stages[i + 1]])
                     ELSE (9 * l) \div 10
            IN  /\ point.left = {l}
                /\ point.right = {r}
                /\ point.middle # {}
                /\ \A m \in point.middle :
                      /\ Min(l, r) <= m
                      /\ m <= Max(l, r) + Milli(250)

\* C9's witness: a record that falls by more than the bump's cap covers
\* (12 to 0), rises (0 to 5) and ends in the taper.
C9_Witness ==
    /\ IsCall("get_attrition_points")
    /\ call.args.retrieved = 12
    /\ call.args.frozen = 0
    /\ call.args.thawed = 5
    /\ call.ret["retrieved"].middle = {Milli(6200)}
    /\ call.ret["frozen"].middle = {Milli(2100)}

\* C10: the handler writes exactly one cycle row, before any outcome is
\* computed and never after; the row is the request as received (amh_value
\* and amh_units before the conversion, bmi before it is derived).
C10_PersistOnceBeforeCompute ==
    /\ pc \in {"idle", "persist"}
          => db = << >> /\ results = << >> /\ trace = << >>
    /\ pc \notin {"idle", "persist"}
          => /\ db = <<req>>
             /\ trace # << >>
             /\ trace[1].op = "cycle_create"
             /\ \A i \in 2..Len(trace) : trace[i].op = "compute_results"
             /\ Len(results) <= Len(trace) - 1
    /\ pc = "done" => Len(trace) = 6

\* C10's witness: a finished request that gave no BMI and an AMH in pmol/L;
\* the row holds the values received, the handler's variables the converted
\* ones.
C10_Witness ==
    /\ pc = "done"
    /\ req.bmi = None
    /\ req.amh_value # None
    /\ req.amh_units = PicoMolesPerLitre
    /\ db[1].bmi = None
    /\ loc.bmi # None
    /\ db[1].amh_value # loc.amh_value

====
